---- MODULE Spec2Model ----
(***************************************************************************)
(* State-machine model of the Nola transcription task queue               *)
(* (nola/models/tasks.py, class TaskDatabase).                            *)
(*                                                                         *)
(* The table transcription_tasks is the function `tasks` from task id to  *)
(* row.  Every method of TaskDatabase opens its own connection, runs its  *)
(* statements in one SQLite write transaction and commits, so each method *)
(* is one atomic action.  Timestamps are readings of a monotone integer   *)
(* clock `now`; a SQL NULL is NULL (numeric columns) or NullText (text    *)
(* columns).  `last` records the most recent call and what it returned,   *)
(* `claimCount` counts, per task, the dequeue calls that received the     *)
(* task during its current stay in PROCESSING, `cancelledPending` is the  *)
(* set of tasks on which cancel succeeded while they were PENDING.         *)
(*                                                                         *)
(* The worker processes (nola/services/worker.py) are the function        *)
(* `workers` from worker id to the local state of worker_loop and         *)
(* run_transcription: every step of a worker is one call on the database  *)
(* together with the local statements up to the next call, and the steps  *)
(* of different processes interleave.  `running` is the module flag       *)
(* _running of each worker process.                                        *)
(***************************************************************************)
EXTENDS Integers, FiniteSets, Sequences, TLC

\* ---- bounds of the model ----
MaxTasks == 2
MaxWorkers == 2
MaxTime == 2
MaxRetries == 1
MaxPriority == 1
MaxTimeout == 1
MaxCalls == 4
MaxSegments == 2
MaxLimit == 2
MaxOffset == 1

\* ---- TaskStatus ----
PENDING == "pending"
PROCESSING == "processing"
COMPLETED == "completed"
FAILED == "failed"
CANCELLED == "cancelled"

TaskStatus == {PENDING, PROCESSING, COMPLETED, FAILED, CANCELLED}

\* ---- values ----
NULL == -1
NullText == "NULL"
NullSegments == <<"NULL">>
TimeoutError == "Task timeout - requeued"
HeartbeatTimeoutError == "Worker heartbeat timeout - requeued"

TaskIds == 1..MaxTasks
WorkerIds == 1..MaxWorkers
Priorities == 0..MaxPriority
RetryLimits == 0..MaxRetries
Timeouts == 0..MaxTimeout
ProgressValues == {50}
ErrorMessages == {"boom"}
FileIds == {1, 2}
Numbers == 0..(MaxSegments + 1)

\* the rows of the files table: file 1 has been uploaded, no other file id
\* has a record
FileRecords == {1}

\* the k-th Segment the engine yields for the audio (ends are not monotone)
SegmentAt(k) ==
    [start |-> k - 1, end |-> IF k = 1 THEN 2 ELSE k - 1, text |-> "s"]

\* the segment lists and durations passed to complete
Results ==
    {[segments |-> <<>>, duration |-> 0],
     [segments |-> <<SegmentAt(1), SegmentAt(2)>>, duration |-> 2]}

VARIABLES tasks, now, last, claimCount, calls, cancelledPending, workers, running

vars == <<tasks, now, last, claimCount, calls, cancelledPending, workers, running>>

\* a call: its method, its arguments, the kind of Python value it returned
\* ("None", "True", "False", "Task", "Int" or the exception raised) and,
\* for "Task" and "Int", the task id or the number returned
Call(op, args, ret, val) ==
    [op |-> op, args |-> args, ret |-> ret, val |-> val]

NoArgs == [task_id |-> NULL]

\* ---- the row written by enqueue (schema defaults for the other columns) ----
NewRowBroken(file_id, priority, max_retries, created_at) ==
    [file_id |-> file_id,
     status |-> PENDING,
     priority |-> 0,
     retry_count |-> 0,
     max_retries |-> max_retries,
     worker_id |-> NULL,
     started_at |-> NULL,
     last_heartbeat |-> NULL,
     progress |-> 0,
     duration |-> NULL,
     segments |-> NullSegments,
     error |-> NullText,
     created_at |-> created_at,
     completed_at |-> NULL]

NewRow(file_id, priority, max_retries, created_at) ==
    [file_id |-> file_id,
     status |-> PENDING,
     priority |-> priority,
     retry_count |-> 0,
     max_retries |-> max_retries,
     worker_id |-> NULL,
     started_at |-> NULL,
     last_heartbeat |-> NULL,
     progress |-> 0,
     duration |-> NULL,
     segments |-> NullSegments,
     error |-> NullText,
     created_at |-> created_at,
     completed_at |-> NULL]

\* ---- json.dumps of a list of segment dicts: the JSON text, as the ----
\* ---- sequence of its tokens                                      ----
DumpSegment(d) ==
    <<"{", "start", ":", ToString(d.start), ",",
           "end", ":", ToString(d.end), ",",
           "text", ":", d.text, "}">>

RECURSIVE DumpItems(_)
DumpItems(items) ==
    IF items = <<>> THEN <<>>
    ELSE DumpSegment(Head(items))
         \o (IF Len(items) > 1 THEN <<",">> ELSE <<>>)
         \o DumpItems(Tail(items))

JsonDumps(segments) == <<"[">> \o DumpItems(segments) \o <<"]">>

\* ---- json.loads: numbers are read back from their digits, objects are ----
\* ---- rebuilt key by key, array elements in the order they appear      ----
ParseNumber(token) == CHOOSE n \in Numbers : ToString(n) = token

ParseObject(tok) ==
    [k \in {tok[2], tok[6], tok[10]} |->
        IF k = tok[10] THEN tok[12]
        ELSE IF k = tok[2] THEN ParseNumber(tok[4]) ELSE ParseNumber(tok[8])]

RECURSIVE LoadItems(_)
LoadItems(tok) ==
    IF Head(tok) = "]" THEN <<>>
    ELSE LET rest == SubSeq(tok, 14, Len(tok))
         IN  <<ParseObject(SubSeq(tok, 1, 13))>>
             \o LoadItems(IF Head(rest) = "," THEN Tail(rest) ELSE rest)

JsonLoads(text) == LoadItems(Tail(text))

\* ---- get_task: the row as a dict, segments parsed when the column is ----
\* ---- not NULL                                                        ----
GetTask(tbl, t) ==
    [tbl[t] EXCEPT !.segments = IF @ # NullSegments THEN JsonLoads(@) ELSE @]

\* ---- dequeue: WHERE status = 'pending' ----
IsPendingBroken(row) == row.status \in {PENDING, PROCESSING}

IsPending(row) == row.status = PENDING

PendingIds(tbl) == {t \in DOMAIN tbl : IsPending(tbl[t])}

\* ---- dequeue: ORDER BY priority DESC, created_at ASC ----
\* TRUE iff row a sorts no later than row b
SortsBeforeBroken(a, b) ==
    \/ a.priority < b.priority
    \/ a.priority = b.priority /\ a.created_at <= b.created_at

SortsBefore(a, b) ==
    \/ a.priority > b.priority
    \/ a.priority = b.priority /\ a.created_at <= b.created_at

\* ---- dequeue: the sub-select with LIMIT 1; rows tied on both keys may ----
\* ---- come out in either order                                          ----
QueueHead(tbl) ==
    {t \in PendingIds(tbl) : \A u \in PendingIds(tbl) : SortsBefore(tbl[t], tbl[u])}

\* ---- dequeue: SET status, worker_id, started_at, last_heartbeat ----
ClaimRowBroken(row, w, t1, t2) ==
    [row EXCEPT !.status = PROCESSING, !.started_at = t1, !.last_heartbeat = t2]

ClaimRow(row, w, t1, t2) ==
    [row EXCEPT !.status = PROCESSING,
                !.worker_id = w,
                !.started_at = t1,
                !.last_heartbeat = t2]

\* ---- claimCount after a call that leaves table tbl and returned task got ----
ClaimsAfter(tbl, got) ==
    [t \in DOMAIN tbl |->
        IF tbl[t].status # PROCESSING THEN 0
        ELSE (IF t \in DOMAIN claimCount THEN claimCount[t] ELSE 0)
             + (IF t = got THEN 1 ELSE 0)]

\* ---- worker_loop between two tasks: nothing in hand ----
\* pc is the place of the worker in run_transcription, yielded the number
\* of segments the engine has yielded in this run
IdleWorker ==
    [pc |-> "idle", task_id |-> NULL, file_id |-> NULL,
     segments_list |-> <<>>, duration |-> 0, yielded |-> 0]

\* the two clock readings of one dequeue call
ClockReadings == {<<now, t2>> : t2 \in {now, now + 1} \cap (0..MaxTime)}

\* every step spends one unit of the budget of MaxCalls steps; a behaviour
\* that starts with calls = NULL has no budget and never stops
Spend ==
    IF calls = NULL
    THEN calls' = calls
    ELSE /\ calls < MaxCalls
         /\ calls' = calls + 1

Init ==
    /\ tasks = <<>>
    /\ now = 0
    /\ last = Call("init", NoArgs, "None", NULL)
    /\ claimCount = <<>>
    /\ calls = 0
    /\ cancelledPending = {}
    /\ workers = [w \in WorkerIds |-> IdleWorker]
    /\ running = [w \in WorkerIds |-> TRUE]

\* the clock advances between calls
Tick ==
    /\ Spend
    /\ now < MaxTime
    /\ now' = now + 1
    /\ last' = Call("tick", NoArgs, "None", NULL)
    /\ UNCHANGED <<tasks, claimCount, cancelledPending, workers, running>>

\* task ids are opaque strings (uuid4 in the API): the ids not yet in the
\* table are interchangeable, and fresh ids are taken in increasing order
Enqueue(t, file_id, priority, max_retries) ==
    /\ Spend
    /\ t \notin DOMAIN tasks
    /\ \A u \in TaskIds : u < t => u \in DOMAIN tasks
    /\ tasks' = [u \in DOMAIN tasks \cup {t} |->
                    IF u = t THEN NewRow(file_id, priority, max_retries, now) ELSE tasks[u]]
    /\ last' = Call("enqueue",
                     [task_id |-> t, file_id |-> file_id,
                      priority |-> priority, max_retries |-> max_retries],
                     "None", NULL)
    /\ claimCount' = ClaimsAfter(tasks', NULL)
    /\ UNCHANGED <<now, cancelledPending, workers, running>>

\* INSERT on an existing primary key raises sqlite3.IntegrityError, whatever
\* the other arguments
EnqueueDuplicateBroken(t) ==
    /\ Spend
    /\ t \in DOMAIN tasks
    /\ tasks' = [tasks EXCEPT ![t] = NewRow(@.file_id, @.priority, @.max_retries, now)]
    /\ last' = Call("enqueue", [task_id |-> t], "IntegrityError", NULL)
    /\ claimCount' = ClaimsAfter(tasks', NULL)
    /\ UNCHANGED <<now, cancelledPending, workers, running>>

EnqueueDuplicate(t) ==
    /\ Spend
    /\ t \in DOMAIN tasks
    /\ last' = Call("enqueue", [task_id |-> t], "IntegrityError", NULL)
    /\ UNCHANGED <<tasks, now, claimCount, cancelledPending, workers, running>>

Dequeue(w) ==
    \E r \in ClockReadings :
        /\ Spend
        /\ now' = r[2]
        /\ UNCHANGED <<cancelledPending, workers, running>>
        /\ IF QueueHead(tasks) = {}
           THEN /\ tasks' = tasks
                /\ last' = Call("dequeue", [worker_id |-> w], "None", NULL)
                /\ claimCount' = ClaimsAfter(tasks', NULL)
           ELSE \E t \in QueueHead(tasks) :
                /\ tasks' = [tasks EXCEPT ![t] = ClaimRow(tasks[t], w, r[1], r[2])]
                /\ last' = Call("dequeue", [worker_id |-> w], "Task", t)
                /\ claimCount' = ClaimsAfter(tasks', t)

\* ---- heartbeat: SET last_heartbeat, progress WHERE id = ? ----
HeartbeatRow(row, progress, t) ==
    [row EXCEPT !.last_heartbeat = t, !.progress = progress]

\* the table after heartbeat(t, progress) at time at
HeartbeatTable(tbl, t, progress, at) ==
    [u \in DOMAIN tbl |-> IF u = t THEN HeartbeatRow(tbl[u], progress, at) ELSE tbl[u]]

Heartbeat(t, progress) ==
    /\ Spend
    /\ tasks' = HeartbeatTable(tasks, t, progress, now)
    /\ last' = Call("heartbeat", [task_id |-> t, progress |-> progress], "None", NULL)
    /\ claimCount' = ClaimsAfter(tasks', NULL)
    /\ UNCHANGED <<now, cancelledPending, workers, running>>

\* ---- complete: SET status, segments, duration, progress, completed_at ----
\* ---- WHERE id = ?                                                      ----
CompleteRowBroken(row, segments, duration, t) ==
    [row EXCEPT !.status = COMPLETED,
                !.segments = JsonDumps(IF segments = <<>> THEN <<>> ELSE <<Head(segments)>>),
                !.duration = duration,
                !.progress = 100,
                !.completed_at = t]

CompleteRow(row, segments, duration, t) ==
    [row EXCEPT !.status = COMPLETED,
                !.segments = JsonDumps(segments),
                !.duration = duration,
                !.progress = 100,
                !.completed_at = t]

\* the table after complete(t, segments, duration) at time at
CompleteTable(tbl, t, segments, duration, at) ==
    [u \in DOMAIN tbl |->
        IF u = t THEN CompleteRow(tbl[u], segments, duration, at) ELSE tbl[u]]

Complete(t, segments, duration) ==
    /\ Spend
    /\ tasks' = CompleteTable(tasks, t, segments, duration, now)
    /\ last' = Call("complete", [task_id |-> t, segments |-> segments, duration |-> duration],
                     "None", NULL)
    /\ claimCount' = ClaimsAfter(tasks', NULL)
    /\ UNCHANGED <<now, cancelledPending, workers, running>>

\* ---- fail, first statement: WHERE id = ? AND retry_count < max_retries ----
FailRetryMatchesBroken(tbl, t) ==
    /\ t \in DOMAIN tbl
    /\ tbl[t].retry_count <= tbl[t].max_retries

FailRetryMatches(tbl, t) ==
    /\ t \in DOMAIN tbl
    /\ tbl[t].retry_count < tbl[t].max_retries

RequeueRowBroken(row, error) ==
    [row EXCEPT !.status = PENDING, !.retry_count = @ + 1, !.error = error]

RequeueRow(row, error) ==
    [row EXCEPT !.status = PENDING,
                !.retry_count = @ + 1,
                !.error = error,
                !.worker_id = NULL,
                !.started_at = NULL]

\* ---- fail, second statement: SET status, error, completed_at WHERE id = ? ----
FailRowBroken(row, error, t) ==
    [row EXCEPT !.status = FAILED, !.error = error, !.completed_at = t, !.retry_count = 0]

FailRow(row, error, t) ==
    [row EXCEPT !.status = FAILED, !.error = error, !.completed_at = t]

FailTableBroken(tbl, t, error, should_retry, at) ==
    IF should_retry /\ t \in DOMAIN tbl
    THEN [tbl EXCEPT ![t].status = PENDING, ![t].error = error,
                     ![t].worker_id = NULL, ![t].started_at = NULL]
    ELSE [u \in DOMAIN tbl |-> IF u = t THEN FailRow(tbl[u], error, at) ELSE tbl[u]]

\* the table after fail(t, error, should_retry) at time at: the first
\* statement when should_retry and it matches a row, else the second
FailTable(tbl, t, error, should_retry, at) ==
    IF should_retry /\ FailRetryMatches(tbl, t)
    THEN [tbl EXCEPT ![t] = RequeueRow(tbl[t], error)]
    ELSE [u \in DOMAIN tbl |-> IF u = t THEN FailRow(tbl[u], error, at) ELSE tbl[u]]

Fail(t, error, should_retry) ==
    /\ Spend
    /\ tasks' = FailTable(tasks, t, error, should_retry, now)
    /\ last' = Call("fail", [task_id |-> t, error |-> error, should_retry |-> should_retry],
                     "None", NULL)
    /\ claimCount' = ClaimsAfter(tasks', NULL)
    /\ UNCHANGED <<now, cancelledPending, workers, running>>

\* ---- cancel: WHERE id = ? AND status IN ('pending', 'processing') ----
CancelMatchesBroken(tbl, t) == t \in DOMAIN tbl

CancelMatches(tbl, t) ==
    /\ t \in DOMAIN tbl
    /\ tbl[t].status \in {PENDING, PROCESSING}

CancelRow(row, t) ==
    [row EXCEPT !.status = CANCELLED, !.completed_at = t]

Cancel(t) ==
    /\ Spend
    /\ IF CancelMatches(tasks, t)
       THEN /\ tasks' = [tasks EXCEPT ![t] = CancelRow(tasks[t], now)]
            /\ last' = Call("cancel", [task_id |-> t], "True", NULL)
            /\ cancelledPending' = IF tasks[t].status = PENDING
                                   THEN cancelledPending \cup {t}
                                   ELSE cancelledPending
       ELSE /\ tasks' = tasks
            /\ last' = Call("cancel", [task_id |-> t], "False", NULL)
            /\ UNCHANGED cancelledPending
    /\ claimCount' = ClaimsAfter(tasks', NULL)
    /\ UNCHANGED <<now, workers, running>>

\* ---- SQL comparison column < ?: never true of a NULL column ----
SqlLess(column, bound) == column # NULL /\ column < bound

\* ---- requeue_timeout_tasks: WHERE status = 'processing' ----
\* ---- AND started_at < ? AND retry_count < max_retries    ----
TimeoutMatchesBroken(row, timeout_at) ==
    /\ row.status = PROCESSING
    /\ row.started_at <= timeout_at
    /\ row.retry_count < row.max_retries

TimeoutMatches(row, timeout_at) ==
    /\ row.status = PROCESSING
    /\ SqlLess(row.started_at, timeout_at)
    /\ row.retry_count < row.max_retries

RequeueTimeoutTasks(timeout_seconds) ==
    LET timeout_at == now - timeout_seconds
        hit == {t \in DOMAIN tasks : TimeoutMatches(tasks[t], timeout_at)}
    IN  /\ Spend
        /\ tasks' = [u \in DOMAIN tasks |->
                        IF u \in hit THEN RequeueRow(tasks[u], TimeoutError) ELSE tasks[u]]
        /\ last' = Call("requeue_timeout_tasks", [timeout_seconds |-> timeout_seconds],
                         "Int", Cardinality(hit))
        /\ claimCount' = ClaimsAfter(tasks', NULL)
        /\ UNCHANGED <<now, cancelledPending, workers, running>>

\* ---- requeue_dead_workers: WHERE status = 'processing' ----
\* ---- AND last_heartbeat < ? AND retry_count < max_retries ----
DeadWorkerMatchesBroken(row, timeout_at) ==
    /\ SqlLess(row.last_heartbeat, timeout_at)
    /\ row.retry_count < row.max_retries

DeadWorkerMatches(row, timeout_at) ==
    /\ row.status = PROCESSING
    /\ SqlLess(row.last_heartbeat, timeout_at)
    /\ row.retry_count < row.max_retries

RequeueDeadWorkers(heartbeat_timeout) ==
    LET timeout_at == now - heartbeat_timeout
        hit == {t \in DOMAIN tasks : DeadWorkerMatches(tasks[t], timeout_at)}
    IN  /\ Spend
        /\ tasks' = [u \in DOMAIN tasks |->
                        IF u \in hit THEN RequeueRow(tasks[u], HeartbeatTimeoutError)
                        ELSE tasks[u]]
        /\ last' = Call("requeue_dead_workers", [heartbeat_timeout |-> heartbeat_timeout],
                         "Int", Cardinality(hit))
        /\ claimCount' = ClaimsAfter(tasks', NULL)
        /\ UNCHANGED <<now, cancelledPending, workers, running>>

\* ---- list_tasks, count_tasks: if status: ... WHERE status = ? ----
\* the ids of the rows selected; NullText stands for status = None
Selected(tbl, status) ==
    {t \in DOMAIN tbl : status = NullText \/ tbl[t].status = status}

StatusFilters == TaskStatus \cup {NullText}
Limits == 0..MaxLimit
Offsets == 0..MaxOffset

\* ---- list_tasks: ORDER BY created_at DESC; rows with the same ----
\* ---- created_at may come out in either order                 ----
OrderingsBroken(tbl, ids) ==
    {o \in [1..Cardinality(ids) -> ids] :
        \A i, j \in 1..Cardinality(ids) :
            i < j => (o[i] # o[j] /\ tbl[o[i]].created_at <= tbl[o[j]].created_at)}

Orderings(tbl, ids) ==
    {o \in [1..Cardinality(ids) -> ids] :
        \A i, j \in 1..Cardinality(ids) :
            i < j => (o[i] # o[j] /\ tbl[o[i]].created_at >= tbl[o[j]].created_at)}

\* ---- list_tasks: LIMIT ? OFFSET ? ----
Page(o, limit, offset) ==
    SubSeq(o, offset + 1, IF offset + limit <= Len(o) THEN offset + limit ELSE Len(o))

\* list_tasks returns the rows as dicts; the value recorded is the list of
\* their ids
ListTasks(status, limit, offset) ==
    \E o \in Orderings(tasks, Selected(tasks, status)) :
        /\ Spend
        /\ last' = Call("list_tasks",
                         [status |-> status, limit |-> limit, offset |-> offset],
                         "List", Page(o, limit, offset))
        /\ UNCHANGED <<tasks, now, claimCount, cancelledPending, workers, running>>

CountTasks(status) ==
    /\ Spend
    /\ last' = Call("count_tasks", [status |-> status], "Int",
                     Cardinality(Selected(tasks, status)))
    /\ UNCHANGED <<tasks, now, claimCount, cancelledPending, workers, running>>

\* worker ids are opaque strings: the ids that occur nowhere in the state
\* are interchangeable, and a new caller of dequeue takes the least of them
KnownWorkers ==
    {tasks[t].worker_id : t \in DOMAIN tasks}
        \cup (IF last.op = "dequeue" THEN {last.args.worker_id} ELSE {})

DequeueCallers ==
    {w \in WorkerIds : w \in KnownWorkers \/ \A v \in WorkerIds : v < w => v \in KnownWorkers}

Next ==
    \/ Tick
    \/ \E t \in TaskIds, f \in FileRecords, p \in Priorities, m \in RetryLimits :
            Enqueue(t, f, p, m)
    \/ \E t \in TaskIds : EnqueueDuplicate(t)
    \/ \E w \in DequeueCallers : Dequeue(w)
    \/ \E t \in TaskIds, p \in ProgressValues : Heartbeat(t, p)
    \/ \E t \in TaskIds, r \in Results : Complete(t, r.segments, r.duration)
    \/ \E t \in TaskIds, e \in ErrorMessages, b \in BOOLEAN : Fail(t, e, b)
    \/ \E t \in TaskIds : Cancel(t)
    \/ \E s \in Timeouts : RequeueTimeoutTasks(s)
    \/ \E s \in Timeouts : RequeueDeadWorkers(s)

Spec == Init /\ [][Next]_vars

\* ---- the queue read through the API: tasks are enqueued, claimed and ----
\* ---- cancelled while the clock advances, and the table is listed and ----
\* ---- counted                                                         ----
QueryNext ==
    \/ Tick
    \/ \E t \in TaskIds, f \in FileRecords : Enqueue(t, f, 0, 0)
    \/ \E w \in DequeueCallers : Dequeue(w)
    \/ \E t \in TaskIds : Cancel(t)
    \/ \E s \in StatusFilters, l \in Limits, o \in Offsets : ListTasks(s, l, o)
    \/ \E s \in StatusFilters : CountTasks(s)

QuerySpec == Init /\ [][QueryNext]_vars

\* ---- the queue left to the sweeper: tasks are enqueued and claimed, the ----
\* ---- workers that claimed them never write again (no heartbeat,        ----
\* ---- complete or fail), the clock keeps advancing up to MaxTime and    ----
\* ---- both sweeper passes keep running with a zero threshold            ----
LiveInit ==
    /\ tasks = <<>>
    /\ now = 0
    /\ last = Call("init", NoArgs, "None", NULL)
    /\ claimCount = <<>>
    /\ calls = NULL
    /\ cancelledPending = {}
    /\ workers = [w \in WorkerIds |-> IdleWorker]
    /\ running = [w \in WorkerIds |-> TRUE]

LiveNext ==
    \/ Tick
    \/ \E t \in TaskIds, f \in FileRecords, p \in Priorities, m \in RetryLimits :
            Enqueue(t, f, p, m)
    \/ \E w \in DequeueCallers : Dequeue(w)
    \/ \E s \in Timeouts : RequeueTimeoutTasks(s)
    \/ \E s \in Timeouts : RequeueDeadWorkers(s)

LiveSpec ==
    /\ LiveInit
    /\ [][LiveNext]_vars
    /\ WF_vars(Tick)
    /\ WF_vars(RequeueTimeoutTasks(0))
    /\ WF_vars(RequeueDeadWorkers(0))

\* ==== the worker processes (services/worker.py) ====

FileNotFound == "File not found"
FileDoesNotExist == "File does not exist"

\* the worker is inside the for loop over engine.transcribe: "engine" while
\* the engine computes, "yielded" when the loop body has run for a segment
\* and the generator is resumed (its progress callback comes next)
Running(w) == workers[w].pc \in {"engine", "yielded"}

Max(a, b) == IF a >= b THEN a ELSE b

\* ---- worker_loop: task = task_db.dequeue(worker_id) ----
WorkerDequeueBroken(w) ==
    \E r \in ClockReadings :
        /\ workers[w].pc # "stopped"
        /\ running[w]
        /\ Spend
        /\ now' = r[2]
        /\ UNCHANGED <<cancelledPending, running>>
        /\ IF QueueHead(tasks) = {}
           THEN /\ tasks' = tasks
                /\ last' = Call("dequeue", [worker_id |-> w], "None", NULL)
                /\ claimCount' = ClaimsAfter(tasks', NULL)
                /\ workers' = workers
           ELSE \E t \in QueueHead(tasks) :
                /\ tasks' = [tasks EXCEPT ![t] = ClaimRow(tasks[t], w, r[1], r[2])]
                /\ last' = Call("dequeue", [worker_id |-> w], "Task", t)
                /\ claimCount' = ClaimsAfter(tasks', t)
                /\ workers' = [workers EXCEPT ![w] =
                                [IdleWorker EXCEPT !.pc = "preflight",
                                                   !.task_id = t,
                                                   !.file_id = tasks'[t].file_id]]

WorkerDequeue(w) ==
    \E r \in ClockReadings :
        /\ workers[w].pc = "idle"
        /\ running[w]
        /\ Spend
        /\ now' = r[2]
        /\ UNCHANGED <<cancelledPending, running>>
        /\ IF QueueHead(tasks) = {}
           THEN /\ tasks' = tasks
                /\ last' = Call("dequeue", [worker_id |-> w], "None", NULL)
                /\ claimCount' = ClaimsAfter(tasks', NULL)
                /\ workers' = workers
           ELSE \E t \in QueueHead(tasks) :
                /\ tasks' = [tasks EXCEPT ![t] = ClaimRow(tasks[t], w, r[1], r[2])]
                /\ last' = Call("dequeue", [worker_id |-> w], "Task", t)
                /\ claimCount' = ClaimsAfter(tasks', t)
                /\ workers' = [workers EXCEPT ![w] =
                                [IdleWorker EXCEPT !.pc = "preflight",
                                                   !.task_id = t,
                                                   !.file_id = tasks'[t].file_id]]

\* the worker leaves run_transcription with a call of fail
WorkerFails(w, error, should_retry) ==
    /\ tasks' = FailTable(tasks, workers[w].task_id, error, should_retry, now)
    /\ last' = Call("fail",
                     [task_id |-> workers[w].task_id, error |-> error,
                      should_retry |-> should_retry],
                     "None", NULL)
    /\ claimCount' = ClaimsAfter(tasks', NULL)
    /\ workers' = [workers EXCEPT ![w] = IdleWorker]

\* ---- run_transcription: get_file_path, Path(file_path).exists(); the ----
\* ---- file system answers either way for a file that has a record     ----
WorkerPreflightBroken(w) ==
    /\ workers[w].pc = "preflight"
    /\ Spend
    /\ UNCHANGED <<now, cancelledPending, running>>
    /\ IF workers[w].file_id \notin FileRecords
       THEN WorkerFails(w, FileNotFound, TRUE)
       ELSE \/ WorkerFails(w, FileDoesNotExist, TRUE)
            \/ /\ workers' = [workers EXCEPT ![w].pc = "engine"]
               /\ last' = Call("get_file_path", [file_id |-> workers[w].file_id],
                                "Path", NULL)
               /\ UNCHANGED <<tasks, claimCount>>

WorkerPreflight(w) ==
    /\ workers[w].pc = "preflight"
    /\ Spend
    /\ UNCHANGED <<now, cancelledPending, running>>
    /\ IF workers[w].file_id \notin FileRecords
       THEN WorkerFails(w, FileNotFound, FALSE)
       ELSE \/ WorkerFails(w, FileDoesNotExist, FALSE)
            \/ /\ workers' = [workers EXCEPT ![w].pc = "engine"]
               /\ last' = Call("get_file_path", [file_id |-> workers[w].file_id],
                                "Path", NULL)
               /\ UNCHANGED <<tasks, claimCount>>

\* ---- the engine yields its next segment: get_task, the look for   ----
\* ---- 'cancelled', append and max                                  ----
WorkerSegmentBroken(w) ==
    LET t == workers[w].task_id
        segment == SegmentAt(workers[w].yielded + 1)
    IN  /\ Running(w)
        /\ workers[w].yielded < MaxSegments
        /\ last' = Call("get_task", [task_id |-> t], "Task", t)
        /\ IF GetTask(tasks, t).status = CANCELLED
           THEN workers' = [workers EXCEPT ![w] = IdleWorker]
           ELSE workers' = [workers EXCEPT
                                ![w].pc = "yielded",
                                ![w].yielded = @ + 1,
                                ![w].segments_list = @,
                                ![w].duration = segment.end]
        /\ Spend
        /\ UNCHANGED <<tasks, now, claimCount, cancelledPending, running>>

WorkerSegment(w) ==
    LET t == workers[w].task_id
        segment == SegmentAt(workers[w].yielded + 1)
    IN  /\ Running(w)
        /\ workers[w].yielded < MaxSegments
        /\ last' = Call("get_task", [task_id |-> t], "Task", t)
        /\ IF GetTask(tasks, t).status = CANCELLED
           THEN workers' = [workers EXCEPT ![w] = IdleWorker]
           ELSE workers' = [workers EXCEPT
                                ![w].pc = "yielded",
                                ![w].yielded = @ + 1,
                                ![w].segments_list = Append(@, segment),
                                ![w].duration = Max(@, segment.end)]
        /\ Spend
        /\ UNCHANGED <<tasks, now, claimCount, cancelledPending, running>>

\* ---- the resumed engine calls on_progress: task_db.heartbeat ----
WorkerProgress(w, progress) ==
    LET t == workers[w].task_id
    IN  /\ workers[w].pc = "yielded"
        /\ tasks' = HeartbeatTable(tasks, t, progress, now)
        /\ last' = Call("heartbeat", [task_id |-> t, progress |-> progress], "None", NULL)
        /\ claimCount' = ClaimsAfter(tasks', NULL)
        /\ workers' = [workers EXCEPT ![w].pc = "engine"]
        /\ Spend
        /\ UNCHANGED <<now, cancelledPending, running>>

\* ---- the engine returns: task_db.complete(task_id, segments_list, duration) ----
WorkerFinish(w) ==
    LET t == workers[w].task_id
    IN  /\ Running(w)
        /\ tasks' = CompleteTable(tasks, t, workers[w].segments_list,
                                   workers[w].duration, now)
        /\ last' = Call("complete",
                         [task_id |-> t, segments |-> workers[w].segments_list,
                          duration |-> workers[w].duration],
                         "None", NULL)
        /\ claimCount' = ClaimsAfter(tasks', NULL)
        /\ workers' = [workers EXCEPT ![w] = IdleWorker]
        /\ Spend
        /\ UNCHANGED <<now, cancelledPending, running>>

\* ---- the engine raises: except Exception, fail(task_id, str(e), True) ----
WorkerRaiseBroken(w, error) ==
    /\ Running(w)
    /\ workers' = [workers EXCEPT ![w] = IdleWorker]
    /\ last' = Call("engine_error", [task_id |-> workers[w].task_id], "None", NULL)
    /\ Spend
    /\ UNCHANGED <<tasks, now, claimCount, cancelledPending, running>>

WorkerRaise(w, error) ==
    /\ Running(w)
    /\ WorkerFails(w, error, TRUE)
    /\ Spend
    /\ UNCHANGED <<now, cancelledPending, running>>

\* the workers start on a table that already holds one PENDING task,
\* enqueued at time 0 for any file id and with any retry limit
WorkerInit ==
    /\ \E f \in FileIds, m \in RetryLimits : tasks = [t \in {1} |-> NewRow(f, 0, m, 0)]
    /\ now = 0
    /\ last = Call("init", NoArgs, "None", NULL)
    /\ claimCount = [t \in {1} |-> 0]
    /\ calls = 0
    /\ cancelledPending = {}
    /\ workers = [w \in WorkerIds |-> IdleWorker]
    /\ running = [w \in WorkerIds |-> TRUE]

\* the queue with its workers: more tasks are enqueued straight through
\* TaskDatabase for any file id, idle workers dequeue and run what they
\* get, clients cancel, the timeout pass runs with a zero threshold; the
\* clock advances during dequeue calls
WorkerNext ==
    \/ \E t \in TaskIds, f \in FileIds, m \in RetryLimits : Enqueue(t, f, 0, m)
    \/ \E w \in WorkerIds : WorkerDequeue(w)
    \/ \E w \in WorkerIds : WorkerPreflight(w)
    \/ \E w \in WorkerIds : WorkerSegment(w)
    \/ \E w \in WorkerIds, p \in ProgressValues : WorkerProgress(w, p)
    \/ \E w \in WorkerIds : WorkerFinish(w)
    \/ \E w \in WorkerIds, e \in ErrorMessages : WorkerRaise(w, e)
    \/ \E t \in TaskIds : Cancel(t)
    \/ RequeueTimeoutTasks(0)

WorkerSpec == WorkerInit /\ [][WorkerNext]_vars

\* ==== worker_loop: shutdown and exceptions (services/worker.py) ====

OperationalError == "OperationalError"

\* ---- signal_handler (SIGINT, SIGTERM): _running = False ----
SignalHandler(w) ==
    /\ running[w]
    /\ workers[w].pc # "stopped"
    /\ running' = [running EXCEPT ![w] = FALSE]
    /\ last' = Call("signal_handler", [worker_id |-> w], "None", NULL)
    /\ Spend
    /\ UNCHANGED <<tasks, now, claimCount, cancelledPending, workers>>

\* ---- worker_loop: while _running is false at the head of the loop ----
WorkerStoppedBroken(w) ==
    /\ workers[w].pc # "stopped"
    /\ ~running[w]
    /\ workers' = [workers EXCEPT ![w] = [IdleWorker EXCEPT !.pc = "stopped"]]
    /\ last' = Call("worker_stopped", [worker_id |-> w], "None", NULL)
    /\ Spend
    /\ UNCHANGED <<tasks, now, claimCount, cancelledPending, running>>

WorkerStopped(w) ==
    /\ workers[w].pc = "idle"
    /\ ~running[w]
    /\ workers' = [workers EXCEPT ![w].pc = "stopped"]
    /\ last' = Call("worker_stopped", [worker_id |-> w], "None", NULL)
    /\ Spend
    /\ UNCHANGED <<tasks, now, claimCount, cancelledPending, running>>

\* ---- worker_loop: dequeue raises, except Exception, time.sleep(5) ----
WorkerDequeueRaises(w) ==
    /\ workers[w].pc = "idle"
    /\ running[w]
    /\ last' = Call("dequeue", [worker_id |-> w], OperationalError, NULL)
    /\ Spend
    /\ UNCHANGED <<tasks, now, claimCount, cancelledPending, workers, running>>

\* ---- run_transcription: the call of fail in the except clause raises, ----
\* ---- the exception leaves run_transcription; worker_loop: except     ----
\* ---- Exception, time.sleep(5)                                        ----
WorkerFailRaisesBroken(w, error) ==
    /\ workers[w].pc \in {"preflight", "engine", "yielded"}
    /\ workers' = [workers EXCEPT ![w] = [IdleWorker EXCEPT !.pc = "stopped"]]
    /\ last' = Call("fail",
                     [task_id |-> workers[w].task_id, error |-> error,
                      should_retry |-> TRUE],
                     OperationalError, NULL)
    /\ Spend
    /\ UNCHANGED <<tasks, now, claimCount, cancelledPending, running>>

WorkerFailRaises(w, error) ==
    /\ workers[w].pc \in {"preflight", "engine", "yielded"}
    /\ workers' = [workers EXCEPT ![w] = IdleWorker]
    /\ last' = Call("fail",
                     [task_id |-> workers[w].task_id, error |-> error,
                      should_retry |-> TRUE],
                     OperationalError, NULL)
    /\ Spend
    /\ UNCHANGED <<tasks, now, claimCount, cancelledPending, running>>

\* the workers when calls on the database may raise: more tasks are
\* enqueued, workers dequeue and run what they get, and may be told to
\* shut down
FaultNext ==
    \/ \E t \in TaskIds, f \in FileRecords : Enqueue(t, f, 0, 0)
    \/ \E w \in WorkerIds : WorkerDequeue(w)
    \/ \E w \in WorkerIds : WorkerDequeueRaises(w)
    \/ \E w \in WorkerIds : WorkerPreflight(w)
    \/ \E w \in WorkerIds : WorkerSegment(w)
    \/ \E w \in WorkerIds, p \in ProgressValues : WorkerProgress(w, p)
    \/ \E w \in WorkerIds : WorkerFinish(w)
    \/ \E w \in WorkerIds, e \in ErrorMessages : WorkerRaise(w, e)
    \/ \E w \in WorkerIds, e \in ErrorMessages : WorkerFailRaises(w, e)
    \/ \E w \in WorkerIds : SignalHandler(w)
    \/ \E w \in WorkerIds : WorkerStopped(w)

FaultSpec == WorkerInit /\ [][FaultNext]_vars

\* the running system: clients enqueue (through the API, for files that
\* have a record) and cancel, a worker process keeps taking the steps of
\* its loop and may receive SIGINT or SIGTERM; no budget of calls, no
\* sweeper (nothing in src/ schedules one), and the clock has reached
\* MaxTime, so every row has the same created_at
Pollers == {1}

WorkerActs(w) ==
    \/ WorkerDequeue(w)
    \/ WorkerPreflight(w)
    \/ WorkerSegment(w)
    \/ \E p \in ProgressValues : WorkerProgress(w, p)
    \/ WorkerFinish(w)
    \/ \E e \in ErrorMessages : WorkerRaise(w, e)
    \/ WorkerStopped(w)

LoopInit ==
    /\ tasks = <<>>
    /\ now = MaxTime
    /\ last = Call("init", NoArgs, "None", NULL)
    /\ claimCount = <<>>
    /\ calls = NULL
    /\ cancelledPending = {}
    /\ workers = [w \in WorkerIds |-> IdleWorker]
    /\ running = [w \in WorkerIds |-> TRUE]

LoopNext ==
    \/ \E t \in TaskIds, f \in FileRecords, p \in Priorities, m \in RetryLimits :
            Enqueue(t, f, p, m)
    \/ \E t \in TaskIds : Cancel(t)
    \/ \E w \in Pollers : SignalHandler(w)
    \/ \E w \in Pollers : WorkerActs(w)

LoopSpec ==
    /\ LoopInit
    /\ [][LoopNext]_vars
    /\ \A w \in Pollers : WF_vars(WorkerActs(w))

\* ==== properties of the queue operations ====

Terminal == {COMPLETED, FAILED, CANCELLED}

\* the tasks whose status column is 'pending' in the current state
PendingNow == {t \in DOMAIN tasks : tasks[t].status = PENDING}

\* C1: no task is handed to two dequeue calls during one stay in
\* PROCESSING: every task has been received by at most one dequeue call
\* since it last was PENDING; a dequeue call receives a task exactly when
\* some task is PENDING, the task it receives was PENDING and is not
\* PENDING afterwards, so of N calls racing for one PENDING task exactly one
\* receives it and the others receive None.
C1_Step ==
    /\ \A t \in DOMAIN claimCount' : claimCount'[t] <= 1
    /\ last'.op = "dequeue" =>
        /\ (last'.ret = "Task") <=> (PendingNow # {})
        /\ (last'.ret = "None") <=> (PendingNow = {})
        /\ last'.ret = "Task" =>
            /\ last'.val \in PendingNow
            /\ {t \in DOMAIN tasks' : tasks'[t].status = PENDING} = PendingNow \ {last'.val}

C1_ExclusiveClaim == [][C1_Step]_vars

\* a dequeue call came back empty-handed while another worker holds the only
\* claim on a task
C1_Witness ==
    /\ last.op = "dequeue"
    /\ last.ret = "None"
    /\ \E t \in DOMAIN tasks :
        /\ tasks[t].status = PROCESSING
        /\ claimCount[t] = 1
        /\ tasks[t].worker_id \in WorkerIds \ {last.args.worker_id}

\* C2: the task a dequeue call returns had, just before the call, the
\* greatest priority of all PENDING tasks and the least created_at of the
\* PENDING tasks of that priority; and when two dequeue calls follow each
\* other directly, the first task returned sorts no later than the second
\* (priority descending, then created_at ascending).
C2_Step ==
    (last'.op = "dequeue" /\ last'.ret = "Task") =>
        LET got == tasks[last'.val]
        IN  /\ \A u \in PendingNow :
                /\ tasks[u].priority <= got.priority
                /\ tasks[u].priority = got.priority => got.created_at <= tasks[u].created_at
            /\ (last.op = "dequeue" /\ last.ret = "Task") =>
                LET prev == tasks[last.val]
                IN  \/ prev.priority > got.priority
                    \/ prev.priority = got.priority /\ prev.created_at <= got.created_at

C2_PriorityThenFifo == [][C2_Step]_vars

\* a dequeue call returned a task while an older task of lower priority is
\* still waiting
C2_Witness ==
    /\ last.op = "dequeue"
    /\ last.ret = "Task"
    /\ \E u \in PendingNow :
        /\ tasks[u].priority < tasks[last.val].priority
        /\ tasks[u].created_at < tasks[last.val].created_at

\* C3: a task returned by dequeue(w) was PENDING before the call and is
\* afterwards the same row with status PROCESSING, worker_id w, and
\* started_at and last_heartbeat read from the clock during the call; no
\* other row changes; and when no task is PENDING the call returns None and
\* changes no row.
C3_Step ==
    last'.op = "dequeue" =>
        /\ last'.ret = "Task" =>
            LET t == last'.val
            IN  /\ tasks[t].status = PENDING
                /\ tasks'[t].status = PROCESSING
                /\ tasks'[t].worker_id = last'.args.worker_id
                /\ tasks'[t].started_at \in now..now'
                /\ tasks'[t].last_heartbeat \in now..now'
                /\ \A u \in DOMAIN tasks \ {t} : tasks'[u] = tasks[u]
        /\ PendingNow = {} => (last'.ret = "None" /\ tasks' = tasks)

C3_ClaimsOnlyPending == [][C3_Step]_vars

\* a dequeue call has just claimed a task for its worker while another task
\* that is not PENDING was left alone
C3_Witness ==
    /\ last.op = "dequeue"
    /\ last.ret = "Task"
    /\ tasks[last.val].status = PROCESSING
    /\ tasks[last.val].worker_id = last.args.worker_id
    /\ tasks[last.val].last_heartbeat = now
    /\ \E u \in DOMAIN tasks : tasks[u].status \in Terminal

\* C4: once a task is COMPLETED, FAILED or CANCELLED no step changes its
\* status.
C4_Step ==
    \A t \in DOMAIN tasks :
        tasks[t].status \in Terminal => tasks'[t].status = tasks[t].status

C4_TerminalAbsorbing == [][C4_Step]_vars

\* C5: heartbeat(task_id, progress) writes last_heartbeat and progress only
\* to a PROCESSING task and returns True exactly then; on any other task it
\* returns False and leaves the table as it was.
C5_Step ==
    last'.op = "heartbeat" =>
        LET t == last'.args.task_id
        IN  IF t \in DOMAIN tasks /\ tasks[t].status = PROCESSING
            THEN /\ last'.ret = "True"
                 /\ tasks' = [tasks EXCEPT ![t].last_heartbeat = now,
                                           ![t].progress = last'.args.progress]
            ELSE /\ last'.ret = "False"
                 /\ tasks' = tasks

C5_HeartbeatGuarded == [][C5_Step]_vars

\* C6: complete(task_id, segments, duration) is applied only to a
\* PROCESSING task and returns True exactly then; on any other task (one
\* that cancel got to first) it returns False and status and segments stay
\* as they were.
C6_Step ==
    last'.op = "complete" =>
        LET t == last'.args.task_id
        IN  IF t \in DOMAIN tasks /\ tasks[t].status = PROCESSING
            THEN /\ last'.ret = "True"
                 /\ tasks'[t].status = COMPLETED
            ELSE /\ last'.ret = "False"
                 /\ tasks' = tasks

C6_CompleteGuarded == [][C6_Step]_vars

\* C7: fail returns True or False, True exactly when it changed a row; on
\* an unknown task id or a task that is not PROCESSING it returns False and
\* changes nothing.
C7_Step ==
    last'.op = "fail" =>
        LET t == last'.args.task_id
        IN  /\ last'.ret \in {"True", "False"}
            /\ (last'.ret = "True") <=> (tasks' # tasks)
            /\ (t \notin DOMAIN tasks \/ tasks[t].status # PROCESSING) =>
                (last'.ret = "False" /\ tasks' = tasks)

C7_FailReportsOutcome == [][C7_Step]_vars

\* C8: fail with should_retry on a PROCESSING task with retry_count <
\* max_retries returns True and puts the task back to PENDING with
\* retry_count one higher, error the given message, worker_id and
\* started_at NULL.
C8_Step ==
    (/\ last'.op = "fail"
     /\ last'.args.should_retry
     /\ last'.args.task_id \in DOMAIN tasks
     /\ tasks[last'.args.task_id].status = PROCESSING
     /\ tasks[last'.args.task_id].retry_count < tasks[last'.args.task_id].max_retries) =>
        LET t == last'.args.task_id
        IN  /\ last'.ret = "True"
            /\ tasks'[t].status = PENDING
            /\ tasks'[t].retry_count = tasks[t].retry_count + 1
            /\ tasks'[t].error = last'.args.error
            /\ tasks'[t].worker_id = NULL
            /\ tasks'[t].started_at = NULL

C8_FailRequeues == [][C8_Step]_vars

\* C9: fail with should_retry on a PROCESSING task whose retry_count equals
\* max_retries returns True and moves the task to FAILED with retry_count
\* unchanged, error the given message and completed_at set.
C9_Step ==
    (/\ last'.op = "fail"
     /\ last'.args.should_retry
     /\ last'.args.task_id \in DOMAIN tasks
     /\ tasks[last'.args.task_id].status = PROCESSING
     /\ tasks[last'.args.task_id].retry_count = tasks[last'.args.task_id].max_retries) =>
        LET t == last'.args.task_id
        IN  /\ last'.ret = "True"
            /\ tasks'[t].status = FAILED
            /\ tasks'[t].retry_count = tasks[t].retry_count
            /\ tasks'[t].error = last'.args.error
            /\ tasks'[t].completed_at = now

C9_FailAtCeiling == [][C9_Step]_vars

\* C10: fail without should_retry on a PROCESSING task moves it to FAILED
\* with completed_at set and retry_count unchanged, whatever retries
\* remain, and returns the boolean "a row was updated".
C10_Step ==
    (/\ last'.op = "fail"
     /\ ~last'.args.should_retry
     /\ last'.args.task_id \in DOMAIN tasks
     /\ tasks[last'.args.task_id].status = PROCESSING) =>
        LET t == last'.args.task_id
        IN  /\ last'.ret = "True"
            /\ tasks'[t].status = FAILED
            /\ tasks'[t].retry_count = tasks[t].retry_count
            /\ tasks'[t].completed_at = now

C10_FailNoRetry == [][C10_Step]_vars

\* C11: in every state every task has 0 <= retry_count <= max_retries,
\* whatever fail calls and sweeper passes have run on it.
C11_RetryCeiling ==
    \A t \in DOMAIN tasks :
        /\ 0 <= tasks[t].retry_count
        /\ tasks[t].retry_count <= tasks[t].max_retries

\* a fail call asking for a retry found the task at its ceiling (after an
\* earlier requeue) and did not requeue it again
C11_Witness ==
    /\ last.op = "fail"
    /\ last.args.should_retry
    /\ last.args.task_id \in DOMAIN tasks
    /\ tasks[last.args.task_id].max_retries >= 1
    /\ tasks[last.args.task_id].retry_count = tasks[last.args.task_id].max_retries
    /\ tasks[last.args.task_id].status = FAILED

\* C12: cancel moves a PENDING or PROCESSING task to CANCELLED with
\* completed_at the time of the call, changes nothing else and returns True;
\* on a COMPLETED, FAILED or CANCELLED task or an unknown id it returns
\* False and changes nothing.
C12_Step ==
    last'.op = "cancel" =>
        LET t == last'.args.task_id
        IN  IF t \in DOMAIN tasks /\ tasks[t].status \in {PENDING, PROCESSING}
            THEN /\ last'.ret = "True"
                 /\ tasks' = [tasks EXCEPT ![t].status = CANCELLED,
                                           ![t].completed_at = now]
            ELSE /\ last'.ret = "False"
                 /\ tasks' = tasks

C12_CancelGuarded == [][C12_Step]_vars

\* cancel was refused on a task that had already reached a terminal status
C12_Witness ==
    /\ last.op = "cancel"
    /\ last.ret = "False"
    /\ last.args.task_id \in DOMAIN tasks
    /\ tasks[last.args.task_id].status \in Terminal

\* C13: a task on which cancel succeeded while it was PENDING is never
\* returned by a dequeue call.
C13_CancelledNeverDequeued ==
    (last.op = "dequeue" /\ last.ret = "Task") => last.val \notin cancelledPending

\* C14 as claimed: in every state a task is PROCESSING exactly when its
\* worker_id and started_at are both non-NULL.
C14_ClaimIffProcessing ==
    \A t \in DOMAIN tasks :
        (tasks[t].status = PROCESSING)
            <=> (tasks[t].worker_id # NULL /\ tasks[t].started_at # NULL)

\* C14 as amended: after every step a PROCESSING task has worker_id and
\* started_at non-NULL and a PENDING task has both NULL; a step that leaves
\* a task in a terminal status does not touch its worker_id and started_at.
C14_Step ==
    \A t \in DOMAIN tasks' :
        /\ tasks'[t].status = PROCESSING =>
            (tasks'[t].worker_id # NULL /\ tasks'[t].started_at # NULL)
        /\ tasks'[t].status = PENDING =>
            (tasks'[t].worker_id = NULL /\ tasks'[t].started_at = NULL)
        /\ (t \in DOMAIN tasks /\ tasks'[t].status \in Terminal) =>
            /\ tasks'[t].worker_id = tasks[t].worker_id
            /\ tasks'[t].started_at = tasks[t].started_at

C14_ClaimWhileProcessing == [][C14_Step]_vars

\* complete, cancel or fail has just taken a claimed task to a terminal
\* status, and the task still carries the claim of its worker
C14_Witness ==
    /\ last.op \in {"complete", "cancel", "fail"}
    /\ last.args.task_id \in DOMAIN tasks
    /\ tasks[last.args.task_id].status \in Terminal
    /\ tasks[last.args.task_id].worker_id # NULL
    /\ tasks[last.args.task_id].started_at # NULL

\* C15: in every state a task is COMPLETED, FAILED or CANCELLED exactly
\* when its completed_at is non-NULL.
C15_CompletedAtIffTerminal ==
    \A t \in DOMAIN tasks :
        (tasks[t].status \in Terminal) <=> (tasks[t].completed_at # NULL)

\* C16: in every state a COMPLETED task has progress 100 and segments,
\* duration and completed_at non-NULL.
C16_CompletedHasResults ==
    \A t \in DOMAIN tasks :
        tasks[t].status = COMPLETED =>
            /\ tasks[t].progress = 100
            /\ tasks[t].segments # NullSegments
            /\ tasks[t].duration # NULL
            /\ tasks[t].completed_at # NULL

\* C17: while the sweeper passes keep running, a task that is PROCESSING
\* and whose worker has gone silent eventually leaves PROCESSING, whatever
\* its retry_count (claims made before the clock has reached MaxTime, so
\* that the clock can still pass them).
C17_NeverStranded ==
    \A t \in TaskIds :
        (/\ t \in DOMAIN tasks
         /\ tasks[t].status = PROCESSING
         /\ tasks[t].started_at # NULL
         /\ tasks[t].started_at < MaxTime)
            ~> (t \in DOMAIN tasks /\ tasks[t].status # PROCESSING)

\* no error text that the queue writes mentions "max retries exceeded"
MentionsMaxRetries(error) ==
    error \notin ({NullText, TimeoutError, HeartbeatTimeoutError} \cup ErrorMessages)

\* C18: requeue_timeout_tasks leaves a PROCESSING task that is past the
\* threshold and has retry_count >= max_retries out of its count and moves
\* it to FAILED with completed_at set, retry_count unchanged and an error
\* that mentions "max retries exceeded".
C18_Step ==
    last'.op = "requeue_timeout_tasks" =>
        LET timeout_at == now - last'.args.timeout_seconds
            overdue == {t \in DOMAIN tasks :
                            /\ tasks[t].status = PROCESSING
                            /\ tasks[t].started_at # NULL
                            /\ tasks[t].started_at < timeout_at}
            spent == {t \in overdue : tasks[t].retry_count >= tasks[t].max_retries}
        IN  /\ last'.val = Cardinality(overdue \ spent)
            /\ \A t \in spent :
                /\ tasks'[t].status = FAILED
                /\ tasks'[t].completed_at = now
                /\ tasks'[t].retry_count = tasks[t].retry_count
                /\ MentionsMaxRetries(tasks'[t].error)

C18_TimeoutPoisonPill == [][C18_Step]_vars

\* C19: requeue_timeout_tasks(timeout) puts every PROCESSING task with
\* started_at < now - timeout and retry_count < max_retries back to PENDING
\* with worker_id and started_at NULL, retry_count one higher and the
\* timeout text as error, and returns the number of these tasks.
C19_Step ==
    last'.op = "requeue_timeout_tasks" =>
        LET timeout_at == now - last'.args.timeout_seconds
            due == {t \in DOMAIN tasks :
                        /\ tasks[t].status = PROCESSING
                        /\ tasks[t].started_at # NULL
                        /\ tasks[t].started_at < timeout_at
                        /\ tasks[t].retry_count < tasks[t].max_retries}
        IN  /\ last'.ret = "Int"
            /\ last'.val = Cardinality(due)
            /\ \A t \in due :
                /\ tasks'[t].status = PENDING
                /\ tasks'[t].worker_id = NULL
                /\ tasks'[t].started_at = NULL
                /\ tasks'[t].retry_count = tasks[t].retry_count + 1
                /\ tasks'[t].error = TimeoutError

C19_TimeoutRequeue == [][C19_Step]_vars

\* a timeout pass has just requeued a task and counted it
C19_Witness ==
    /\ last.op = "requeue_timeout_tasks"
    /\ last.val >= 1
    /\ \E t \in DOMAIN tasks :
        /\ tasks[t].status = PENDING
        /\ tasks[t].retry_count = 1
        /\ tasks[t].error = TimeoutError
        /\ tasks[t].worker_id = NULL

\* C20: requeue_dead_workers handles every PROCESSING task with
\* last_heartbeat < now - heartbeat_timeout: with retry_count < max_retries
\* it goes back to PENDING, claim cleared and retry_count one higher; with
\* retry_count >= max_retries it goes to FAILED with completed_at set.
C20_Step ==
    last'.op = "requeue_dead_workers" =>
        LET timeout_at == now - last'.args.heartbeat_timeout
            silent == {t \in DOMAIN tasks :
                            /\ tasks[t].status = PROCESSING
                            /\ tasks[t].last_heartbeat # NULL
                            /\ tasks[t].last_heartbeat < timeout_at}
        IN  \A t \in silent :
                IF tasks[t].retry_count < tasks[t].max_retries
                THEN /\ tasks'[t].status = PENDING
                     /\ tasks'[t].worker_id = NULL
                     /\ tasks'[t].started_at = NULL
                     /\ tasks'[t].retry_count = tasks[t].retry_count + 1
                ELSE /\ tasks'[t].status = FAILED
                     /\ tasks'[t].completed_at = now

C20_DeadWorkerTwoPhase == [][C20_Step]_vars

\* C23: enqueue(task_id, file_id, priority, max_retries) with a task_id not
\* in the table returns normally and adds exactly one row, which get_task
\* reports with status PENDING, retry_count 0, progress 0, the given
\* priority and max_retries and worker_id, started_at, segments, duration,
\* error and completed_at NULL; every other row stays as it was.
C23_Step ==
    (last'.op = "enqueue" /\ last'.args.task_id \notin DOMAIN tasks) =>
        LET t == last'.args.task_id
        IN  /\ last'.ret = "None"
            /\ DOMAIN tasks' = DOMAIN tasks \cup {t}
            /\ \A u \in DOMAIN tasks : tasks'[u] = tasks[u]
            /\ GetTask(tasks', t).status = PENDING
            /\ GetTask(tasks', t).retry_count = 0
            /\ GetTask(tasks', t).progress = 0
            /\ GetTask(tasks', t).priority = last'.args.priority
            /\ GetTask(tasks', t).max_retries = last'.args.max_retries
            /\ GetTask(tasks', t).worker_id = NULL
            /\ GetTask(tasks', t).started_at = NULL
            /\ GetTask(tasks', t).segments = NullSegments
            /\ GetTask(tasks', t).duration = NULL
            /\ GetTask(tasks', t).error = NullText
            /\ GetTask(tasks', t).completed_at = NULL

C23_EnqueueCreatesPending == [][C23_Step]_vars

\* enqueue has just added a task with a priority and a retry limit of its
\* own beside a task that has already left PENDING
C23_Witness ==
    /\ last.op = "enqueue"
    /\ last.ret = "None"
    /\ tasks[last.args.task_id].status = PENDING
    /\ tasks[last.args.task_id].priority = 1
    /\ tasks[last.args.task_id].max_retries = 1
    /\ \E u \in DOMAIN tasks : tasks[u].status # PENDING

\* C24: complete(t, S, D) on a task that was enqueued and dequeued leaves
\* a row that get_task reports with status COMPLETED, segments equal to S
\* (same length, same order, same start, end and text) and duration D, the
\* empty list included.
C24_Step ==
    (/\ last'.op = "complete"
     /\ last'.args.task_id \in DOMAIN tasks
     /\ tasks[last'.args.task_id].status = PROCESSING) =>
        LET got == GetTask(tasks', last'.args.task_id)
        IN  /\ got.status = COMPLETED
            /\ got.segments = last'.args.segments
            /\ got.duration = last'.args.duration

C24_ResultRoundTrip == [][C24_Step]_vars

\* complete has just stored two segments on a claimed task, and get_task
\* gives them back in order
C24_Witness ==
    /\ last.op = "complete"
    /\ last.args.task_id \in DOMAIN tasks
    /\ Len(last.args.segments) = 2
    /\ tasks[last.args.task_id].worker_id # NULL
    /\ tasks[last.args.task_id].status = COMPLETED
    /\ GetTask(tasks, last.args.task_id).segments = <<SegmentAt(1), SegmentAt(2)>>
    /\ GetTask(tasks, last.args.task_id).duration = 2

\* C25: enqueue with a task_id that is already in the table raises an error
\* and leaves the table as it was: same rows, same number of rows.
C25_Step ==
    (last'.op = "enqueue" /\ last'.args.task_id \in DOMAIN tasks) =>
        /\ last'.ret = "IntegrityError"
        /\ tasks' = tasks
        /\ Cardinality(DOMAIN tasks') = Cardinality(DOMAIN tasks)

C25_DuplicateRejected == [][C25_Step]_vars

\* enqueue was refused for the id of a task that had already been claimed
\* or finished, and the task is still in that status
C25_Witness ==
    /\ last.op = "enqueue"
    /\ last.ret = "IntegrityError"
    /\ tasks[last.args.task_id].status # PENDING

\* C30: a task starts with retry_count 0 and every step changes the
\* retry_count of a task exactly when it takes the task from PROCESSING to
\* PENDING, and then by one; so retry_count is the number of requeues and
\* complete leaves it alone.
C30_Step ==
    \A t \in DOMAIN tasks' :
        IF t \in DOMAIN tasks
        THEN tasks'[t].retry_count =
                tasks[t].retry_count
                + (IF tasks[t].status = PROCESSING /\ tasks'[t].status = PENDING
                   THEN 1 ELSE 0)
        ELSE tasks'[t].retry_count = 0

C30_RetryCountCountsRequeues == [][C30_Step]_vars

\* ==== properties of the workers ====

\* C21: once cancel has committed on a task that a worker was running (the
\* task is CANCELLED and still carries the claim), no heartbeat, complete
\* or fail of a worker changes the task: it stays CANCELLED with segments
\* NULL, also when the engine ends or raises before another segment.
C21_Step ==
    \A t \in DOMAIN tasks :
        (/\ tasks[t].status = CANCELLED
         /\ tasks[t].worker_id # NULL
         /\ last'.op \in {"heartbeat", "complete", "fail"}
         /\ last'.args.task_id = t) =>
            /\ tasks'[t] = tasks[t]
            /\ tasks'[t].segments = NullSegments

C21_CancelSilencesWorker == [][C21_Step]_vars

\* C22: when the timeout pass has taken a task away from the worker that
\* is still running it (the task is PENDING again, or PROCESSING for
\* another worker), the complete call of that worker returns False and
\* leaves status, segments and duration of the task as they were.
C22_Step ==
    \A w \in WorkerIds :
        (/\ Running(w)
         /\ workers'[w].pc = "idle"
         /\ last'.op = "complete"
         /\ tasks[workers[w].task_id].error = TimeoutError
         /\ \/ tasks[workers[w].task_id].status = PENDING
            \/ /\ tasks[workers[w].task_id].status = PROCESSING
               /\ tasks[workers[w].task_id].worker_id # w) =>
            LET t == workers[w].task_id
            IN  /\ last'.ret = "False"
                /\ tasks'[t].status = tasks[t].status
                /\ tasks'[t].segments = tasks[t].segments
                /\ tasks'[t].duration = tasks[t].duration

C22_LateCompleteRejected == [][C22_Step]_vars

\* C26: enqueue with a file_id that has no row in files raises an error and
\* adds no task, so every task references a row of files at the moment it
\* is added to the table.
C26_Step ==
    /\ (/\ last'.op = "enqueue"
        /\ "file_id" \in DOMAIN last'.args
        /\ last'.args.file_id \notin FileRecords) =>
            (last'.ret # "None" /\ tasks' = tasks)
    /\ \A t \in DOMAIN tasks' \ DOMAIN tasks : tasks'[t].file_id \in FileRecords

C26_UnknownFileRejected == [][C26_Step]_vars

\* C27: a worker that leaves the engine loop on an exception calls
\* fail(T, message, should_retry = True) and is idle afterwards; T, which
\* it was running, goes to PENDING with retry_count one higher when
\* retry_count < max_retries and to FAILED otherwise; and no task is ever
\* PROCESSING for a worker that is idle.
C27_Step ==
    /\ \A w \in WorkerIds :
        (/\ Running(w)
         /\ workers'[w].pc = "idle"
         /\ last'.op \notin {"complete", "get_task"}) =>
            LET t == workers[w].task_id
            IN  /\ last'.op = "fail"
                /\ last'.args.task_id = t
                /\ last'.args.should_retry
                /\ IF tasks[t].retry_count < tasks[t].max_retries
                   THEN /\ tasks'[t].status = PENDING
                        /\ tasks'[t].retry_count = tasks[t].retry_count + 1
                   ELSE /\ tasks'[t].status = FAILED
                        /\ tasks'[t].retry_count = tasks[t].retry_count
    /\ \A t \in DOMAIN tasks' :
        tasks'[t].status = PROCESSING =>
            /\ workers'[tasks'[t].worker_id].pc # "idle"
            /\ workers'[tasks'[t].worker_id].task_id = t

C28_Step ==
    \A w \in WorkerIds :
        workers[w].pc = "preflight" =>
            LET t == workers[w].task_id
            IN  \/ workers'[w] = workers[w]
                \/ /\ workers'[w].pc = "engine"
                   /\ workers[w].file_id \in FileRecords
                   /\ tasks' = tasks
                \/ /\ workers'[w].pc = "idle"
                   /\ last'.op = "fail"
                   /\ last'.args.task_id = t
                   /\ ~last'.args.should_retry
                   /\ last'.args.error \in {FileNotFound, FileDoesNotExist}
                   /\ tasks'[t].status = FAILED
                   /\ tasks'[t].retry_count = tasks[t].retry_count
                   /\ tasks'[t].completed_at = now

RECURSIVE MaxEnd(_)
MaxEnd(n) == IF n = 0 THEN 0 ELSE Max(MaxEnd(n - 1), SegmentAt(n).end)

\* C29: when the engine returns, the worker calls complete with the
\* segments the engine yielded, in that order, and the maximum of their
\* ends as duration (0 for none), and the task is COMPLETED with these
\* results; a run without segments ends COMPLETED with an empty list and
\* duration 0.
C29_Step ==
    \A w \in WorkerIds :
        (/\ Running(w)
         /\ workers'[w].pc = "idle"
         /\ last'.op \notin {"fail", "get_task"}) =>
            LET t == workers[w].task_id
                n == workers[w].yielded
            IN  /\ last'.op = "complete"
                /\ last'.args.task_id = t
                /\ last'.args.segments = [k \in 1..n |-> SegmentAt(k)]
                /\ last'.args.duration = MaxEnd(n)
                /\ GetTask(tasks', t).status = COMPLETED
                /\ GetTask(tasks', t).segments = [k \in 1..n |-> SegmentAt(k)]
                /\ GetTask(tasks', t).duration = MaxEnd(n)

C35_ResultsOnlyOnCompleted ==
    \A t \in DOMAIN tasks :
        tasks[t].status # COMPLETED =>
            (tasks[t].segments = NullSegments /\ tasks[t].duration = NULL)

\* the number of dequeue calls that can still return the task: the retries
\* it has left, and one more while it is PENDING
ClaimsLeft(row) ==
    (row.max_retries - row.retry_count) + (IF row.status = PENDING THEN 1 ELSE 0)

\* C36: each task is returned by dequeue at most max_retries + 1 times:
\* the number of claims a task has left is max_retries + 1 when it is
\* enqueued, is never negative, is raised by no step, and is lowered by one
\* by every dequeue call that returns the task.
C36_Step ==
    \A t \in DOMAIN tasks' :
        /\ ClaimsLeft(tasks'[t]) >= 0
        /\ t \notin DOMAIN tasks => ClaimsLeft(tasks'[t]) = tasks'[t].max_retries + 1
        /\ t \in DOMAIN tasks => ClaimsLeft(tasks'[t]) <= ClaimsLeft(tasks[t])
        /\ (last'.op = "dequeue" /\ last'.ret = "Task" /\ last'.val = t) =>
                ClaimsLeft(tasks'[t]) = ClaimsLeft(tasks[t]) - 1

C36_BoundedAttempts == [][C36_Step]_vars

\* a task with max_retries 1 has just been returned by dequeue for the
\* second time and has no claim left
C36_Witness ==
    /\ last.op = "dequeue"
    /\ last.ret = "Task"
    /\ tasks[last.val].max_retries = 1
    /\ tasks[last.val].retry_count = 1
    /\ tasks[last.val].status = PROCESSING
    /\ ClaimsLeft(tasks[last.val]) = 0

\* C37: a sweeper pass leaves every task unchanged, in all fields, that is
\* not PROCESSING or whose started_at (requeue_timeout_tasks) or
\* last_heartbeat (requeue_dead_workers) is not before now minus the
\* threshold of the pass.
C37_Step ==
    /\ last'.op = "requeue_timeout_tasks" =>
        \A t \in DOMAIN tasks :
            (\/ tasks[t].status # PROCESSING
             \/ tasks[t].started_at = NULL
             \/ tasks[t].started_at >= now - last'.args.timeout_seconds) =>
                tasks'[t] = tasks[t]
    /\ last'.op = "requeue_dead_workers" =>
        \A t \in DOMAIN tasks :
            (\/ tasks[t].status # PROCESSING
             \/ tasks[t].last_heartbeat = NULL
             \/ tasks[t].last_heartbeat >= now - last'.args.heartbeat_timeout) =>
                tasks'[t] = tasks[t]
    /\ last'.op \in {"requeue_timeout_tasks", "requeue_dead_workers"} =>
        DOMAIN tasks' = DOMAIN tasks

C37_SweeperFrame == [][C37_Step]_vars

\* a timeout pass has requeued one task and passed over a task that was
\* still PENDING and had never been claimed
C37_Witness ==
    /\ last.op = "requeue_timeout_tasks"
    /\ last.val = 1
    /\ \E t, u \in DOMAIN tasks :
        /\ tasks[t].error = TimeoutError
        /\ tasks[t].retry_count = 1
        /\ tasks[u].status = PENDING
        /\ tasks[u].retry_count = 0
        /\ tasks[u].error = NullText

\* C38: dequeue changes at most one row and of that row only status,
\* worker_id, started_at and last_heartbeat; and no step of dequeue,
\* heartbeat, complete, fail, cancel or a sweeper pass removes a row,
\* changes its file_id, priority, max_retries or created_at, or lowers its
\* retry_count.
C38_Step ==
    /\ last'.op = "dequeue" =>
        /\ Cardinality({t \in DOMAIN tasks : tasks'[t] # tasks[t]}) <= 1
        /\ \A t \in DOMAIN tasks :
            tasks'[t] = [tasks[t] EXCEPT !.status = tasks'[t].status,
                                         !.worker_id = tasks'[t].worker_id,
                                         !.started_at = tasks'[t].started_at,
                                         !.last_heartbeat = tasks'[t].last_heartbeat]
    /\ last'.op \in {"dequeue", "heartbeat", "complete", "fail", "cancel",
                      "requeue_timeout_tasks", "requeue_dead_workers"} =>
        /\ DOMAIN tasks' = DOMAIN tasks
        /\ \A t \in DOMAIN tasks :
            /\ tasks'[t].file_id = tasks[t].file_id
            /\ tasks'[t].priority = tasks[t].priority
            /\ tasks'[t].max_retries = tasks[t].max_retries
            /\ tasks'[t].created_at = tasks[t].created_at
            /\ tasks'[t].retry_count >= tasks[t].retry_count

C38_FrameOfOperations == [][C38_Step]_vars

\* fail has just moved a task that had been requeued once to FAILED, and
\* the task still has its retry_count of 1
C38_Witness ==
    /\ last.op = "fail"
    /\ last.args.task_id \in DOMAIN tasks
    /\ tasks[last.args.task_id].status = FAILED
    /\ tasks[last.args.task_id].retry_count = 1

\* ==== properties of worker_loop ====

\* a worker that is inside run_transcription
MidTask(w) == workers[w].pc \in {"preflight", "engine", "yielded"}

\* C31: graceful shutdown: a worker leaves its loop only from the head of
\* the loop, between two tasks, and only when its flag has been set; a
\* worker that is inside run_transcription, flag set or not, leaves it only
\* by its closing write on the task (complete or fail) or on reading the
\* task as CANCELLED; no dequeue call is made by a worker whose flag is set;
\* and once the flag of a worker is set the worker eventually has stopped.
C31_Step ==
    \A w \in WorkerIds :
        /\ (workers'[w].pc = "stopped" /\ workers[w].pc # "stopped") =>
                (workers[w].pc = "idle" /\ ~running[w])
        /\ (MidTask(w) /\ workers'[w].pc \notin {"preflight", "engine", "yielded"}) =>
                /\ workers'[w].pc = "idle"
                /\ \/ /\ last'.op \in {"complete", "fail"}
                      /\ last'.args.task_id = workers[w].task_id
                   \/ /\ last'.op = "get_task"
                      /\ last'.args.task_id = workers[w].task_id
                      /\ tasks[workers[w].task_id].status = CANCELLED
        /\ (last'.op = "dequeue" /\ last'.args.worker_id = w /\ last' # last) =>
                running[w]
        /\ ~running[w] => ~running'[w]

C31_GracefulShutdown ==
    /\ [][C31_Step]_vars
    /\ \A w \in WorkerIds : (~running[w]) ~> (workers[w].pc = "stopped")

\* a worker whose flag was set while it was inside run_transcription has
\* gone on to call complete and is at the head of its loop
C31_Witness ==
    \E w \in WorkerIds :
        /\ ~running[w]
        /\ workers[w].pc = "idle"
        /\ last.op = "complete"
        /\ tasks[last.args.task_id].status = COMPLETED
        /\ tasks[last.args.task_id].worker_id = w

\* C40: no starvation: with finitely many tasks enqueued (at most
\* MaxTasks), finite engine runs (at most MaxSegments segments) and a
\* worker that keeps polling, every task that is PENDING is eventually
\* PROCESSING, returned by a dequeue call, unless it is cancelled or the
\* polling worker is told to shut down.
C40_NoStarvation ==
    \A t \in TaskIds :
        (t \in DOMAIN tasks /\ tasks[t].status = PENDING) ~>
            \/ t \in DOMAIN tasks /\ tasks[t].status \in {PROCESSING, CANCELLED}
            \/ \A w \in Pollers : ~running[w]

\* a task of the lowest priority has been returned by dequeue after a task
\* of the highest priority, enqueued after it, had been served
C40_Witness ==
    /\ last.op = "dequeue"
    /\ last.ret = "Task"
    /\ tasks[last.val].priority = 0
    /\ \E u \in DOMAIN tasks :
        /\ u > last.val
        /\ tasks[u].priority = MaxPriority
        /\ tasks[u].status \in Terminal

\* C32: an exception raised by a call on the database inside one iteration
\* of worker_loop (by dequeue, or by the fail call at the end of
\* run_transcription) never ends the worker: the worker is at the head of
\* its loop afterwards, its flag and the table are as they were, and a
\* worker only ever stops when its flag has been set.
C32_Step ==
    \A w \in WorkerIds :
        /\ (/\ last'.ret = OperationalError
            /\ \/ last'.op = "dequeue" /\ last'.args.worker_id = w
               \/ /\ last'.op = "fail"
                  /\ MidTask(w)
                  /\ workers'[w] # workers[w]) =>
                /\ workers'[w] = IdleWorker
                /\ running' = running
                /\ tasks' = tasks
        /\ (workers'[w].pc = "stopped" /\ workers[w].pc # "stopped") => ~running[w]

C32_LoopSurvivesExceptions == [][C32_Step]_vars

\* a worker has claimed a task after it had left another task PROCESSING
\* under its id, on an exception of the fail call
C32_Witness ==
    /\ last.op = "dequeue"
    /\ last.ret = "Task"
    /\ \E t \in DOMAIN tasks :
        /\ t # last.val
        /\ tasks[t].status = PROCESSING
        /\ tasks[t].worker_id = last.args.worker_id

\* C34: a heartbeat or fail issued by a worker for a task that is
\* PROCESSING under the id of another worker (the first worker's claim was
\* swept and the task claimed again) leaves status, worker_id, retry_count
\* and progress of the task as they were; and a step of complete or fail
\* moves a task out of PROCESSING only for the worker whose id the row
\* carries.
C34_Step ==
    \A w \in WorkerIds :
        LET t == workers[w].task_id
        IN  (/\ MidTask(w)
             /\ workers'[w] # workers[w]
             /\ last'.op \in {"heartbeat", "fail", "complete"}
             /\ last'.args.task_id = t
             /\ tasks[t].status = PROCESSING
             /\ tasks[t].worker_id # w) =>
                /\ tasks'[t].status = tasks[t].status
                /\ tasks'[t].worker_id = tasks[t].worker_id
                /\ tasks'[t].retry_count = tasks[t].retry_count
                /\ tasks'[t].progress = tasks[t].progress

C34_ClaimOwnership == [][C34_Step]_vars

WithStatus(status) ==
    IF status = NullText THEN DOMAIN tasks
    ELSE {t \in DOMAIN tasks : tasks[t].status = status}

\* C33: count_tasks(status) returns the number of tasks whose status is
\* the given one (of all tasks when status is omitted); list_tasks(status,
\* limit, offset) returns tasks with that status, no task twice, newest
\* created_at first, as many as there are at positions offset + 1 ..
\* offset + limit, and the task it returns in place i can stand at position
\* offset + i of the tasks with that status sorted by created_at
\* descending; both leave the table as it was.
C33_Step ==
    /\ last'.op = "count_tasks" =>
        /\ last'.ret = "Int"
        /\ last'.val = Cardinality(WithStatus(last'.args.status))
        /\ tasks' = tasks
    /\ last'.op = "list_tasks" =>
        LET all == WithStatus(last'.args.status)
            n == Cardinality(all)
            limit == last'.args.limit
            offset == last'.args.offset
            got == last'.val
            rest == IF n >= offset THEN n - offset ELSE 0
        IN  /\ Len(got) = (IF limit <= rest THEN limit ELSE rest)
            /\ \A i \in 1..Len(got) :
                /\ got[i] \in all
                /\ Cardinality({u \in all : tasks[u].created_at > tasks[got[i]].created_at})
                        <= offset + i - 1
                /\ Cardinality({u \in all : tasks[u].created_at >= tasks[got[i]].created_at})
                        >= offset + i
                /\ \A j \in 1..Len(got) :
                    i < j => /\ got[i] # got[j]
                             /\ tasks[got[i]].created_at >= tasks[got[j]].created_at
            /\ tasks' = tasks

C33_ListAndCount == [][C33_Step]_vars

\* list_tasks with limit 1 and offset 1 has returned the older of two
\* tasks
C33_Witness ==
    /\ last.op = "list_tasks"
    /\ last.args.limit = 1
    /\ last.args.offset = 1
    /\ last.val = <<1>>
    /\ DOMAIN tasks = {1, 2}
    /\ tasks[1].created_at < tasks[2].created_at
====
